---- MODULE Spec2Model ----
(***************************************************************************)
(* DasanNOSDriver (napalm_dasan_nos/dasan_nos.py) as a state machine.      *)
(*                                                                         *)
(* The driver is synchronous: one call runs at a time against one session. *)
(* A call is started by one of the Call_* actions; every blocking call the *)
(* handler makes on the session (find_prompt, send_command, write_channel, *)
(* ...) is a point where the device answers, either with a value           *)
(* (ChannelReturns) or with a socket error / end of stream                 *)
(* (ChannelRaises).  The handlers themselves are the operators that carry  *)
(* the names of the Python methods; they are written as functions of the   *)
(* answers received so far (rs) and yield "block" with the pending request *)
(* when the next answer is missing, "ok" with the returned value, or       *)
(* "raise" with the exception that leaves the method.                      *)
(*                                                                         *)
(* Text is a sequence of tokens; " " and "\n" are the whitespace tokens.   *)
(***************************************************************************)
EXTENDS Integers, Sequences, FiniteSets, TLC

VARIABLES
    device,   \* self.device: None or the netmiko session
    pc,       \* "idle", "running" (a call waits for the device), "done"
    op,       \* the method of the current / last call
    args,     \* its arguments
    rs,       \* the answers of the device to the current / last call, in order
    log,      \* the requests the call made on the session, in order
    result    \* how the last call ended: returned value or raised exception

vars == <<device, pc, op, args, rs, log, result>>

\* ------------------------------------------------------------------ bounds
MaxCmds == 2      \* longest list of commands given to cli
MaxChain == 2     \* longest fallback chain given to _send_command
MaxTemps == 1     \* most records in the output of "show status temp"

\* ------------------------------------------------------------ Python values
None == "None"
Session == "session"

Str(s) == [kind |-> "str", text |-> s, recs |-> <<>>, flag |-> FALSE]
List(r) == [kind |-> "list", text |-> <<>>, recs |-> r, flag |-> FALSE]
Bool(b) == [kind |-> "bool", text |-> <<>>, recs |-> <<>>, flag |-> b]
NoneValue == [kind |-> "None", text |-> <<>>, recs |-> <<>>, flag |-> FALSE]

\* a command argument: a single string or a list of strings
PyStr(s) == [isList |-> FALSE, str |-> s, items |-> <<>>]
PyList(l) == [isList |-> TRUE, str |-> "", items |-> l]

Whitespace == {" ", "\n"}

RECURSIVE lstrip(_)
lstrip(s) ==
    IF s # <<>> /\ Head(s) \in Whitespace THEN lstrip(Tail(s)) ELSE s

RECURSIVE rstrip(_)
rstrip(s) ==
    IF s # <<>> /\ s[Len(s)] \in Whitespace
    THEN rstrip(SubSeq(s, 1, Len(s) - 1))
    ELSE s

\* str.strip()
strip(s) == rstrip(lstrip(s))

\* the Python test  m in s  on strings
Contains(s, m) ==
    \E i \in 1..(Len(s) - Len(m) + 1) : SubSeq(s, i, i + Len(m) - 1) = m

InvalidMarker == <<"%", " ", "Invalid">>
IncorrectMarker == <<"Incorrect", " ", "usage">>
LoginIncorrect == <<"Login", " ", "incorrect">>

\* ------------------------------------------------- outcomes of a handler
Ok(v, lg, dev) ==
    [st |-> "ok", exc |-> "none", val |-> v, log |-> lg, device |-> dev]
Raise(e, v, lg, dev) ==
    [st |-> "raise", exc |-> e, val |-> v, log |-> lg, device |-> dev]
Block(lg, dev) ==
    [st |-> "block", exc |-> "none", val |-> NoneValue, log |-> lg, device |-> dev]

Request(fn, cmd, textfsm, expect) ==
    [fn |-> fn, cmd |-> cmd, textfsm |-> textfsm, expect |-> expect]

\* One blocking call on the session or on the base class: the request is
\* logged and its answer, when there is one, is returned or raised.
AnswerOf(a, lg, self) ==
    IF a.exc # "none"
    THEN Raise(a.exc, NoneValue, lg, self)
    ELSE Ok(a.val, lg, self)

Answer(lg, r, self) ==
    IF Len(lg) > Len(r) THEN Block(lg, self) ELSE AnswerOf(r[Len(lg)], lg, self)

Interact(self, req, r, lg) == Answer(Append(lg, req), r, self)

\* self.device.<method>(...): fails on a driver that holds no session
Channel(self, req, r, lg) ==
    IF self = None
    THEN Raise("AttributeError", NoneValue, lg, self)
    ELSE Interact(self, req, r, lg)

\* -------------------------------------------------------------- handlers
\* self._netmiko_close() has returned
Closed(c) == IF c.st = "ok" THEN Ok(NoneValue, c.log, None) ELSE c

close(self, r, lg) ==
    Closed(Interact(self, Request("_netmiko_close", "", FALSE, <<>>), r, lg))

\* open, after self.close(): raise ConnectionException(msg)
OpenRefused(c, output) ==
    IF c.st # "ok" THEN c
    ELSE Raise("ConnectionException", Str(strip(output)), c.log, c.device)

\* open, after output = self.device._test_channel_read(pattern)
OpenRead(b, r) ==
    IF b.st # "ok" THEN b
    ELSE IF Contains(b.val.text, LoginIncorrect)
    THEN OpenRefused(close(Session, r, b.log), b.val.text)
    ELSE Ok(NoneValue, b.log, Session)

\* open, after self.device = self._netmiko_open(...)
OpenConnected(a, r) ==
    IF a.st # "ok" THEN a
    ELSE OpenRead(Channel(Session,
                          Request("_test_channel_read", "", FALSE,
                                  <<"(>|Login incorrect)">>),
                          r, a.log),
                  r)

open(self, r) ==
    OpenConnected(Interact(self, Request("_netmiko_open", "generic", FALSE, <<>>),
                           r, <<>>),
                  r)

\* _enable sending nothing
EnableSkipped(self, r, lg) ==
    IF self = None
    THEN Raise("AttributeError", NoneValue, lg, self)
    ELSE Ok(NoneValue, lg, self)

_enable(self, r, lg) ==
    Channel(self, Request("enable", "enable", FALSE, <<"#">>), r, lg)

\* the except clause of _send_command
ExceptSocket(o) ==
    IF o.st = "raise" /\ o.exc \in {"socket.error", "EOFError"}
    THEN Raise("ConnectionClosedException", Str(<<o.exc>>), o.log, o.device)
    ELSE o

\* NotInvalid testing for the marker of cli instead of "% Invalid"
NotInvalidWrongMarker(output) ==
    IF output.kind = "str" THEN ~Contains(output.text, IncorrectMarker) ELSE TRUE

\* "% Invalid" not in output
NotInvalid(output) ==
    IF output.kind = "str" THEN ~Contains(output.text, InvalidMarker) ELSE TRUE

\* output.strip() when the output is not structured
StripOutput(output, use_textfsm) ==
    IF use_textfsm THEN output ELSE Str(strip(output.text))

RECURSIVE ChainLoop(_, _, _, _, _, _, _)

\* the loop body after  if not use_textfsm: output = output.strip()
ChainTest(self, items, i, output, use_textfsm, r, lg) ==
    IF NotInvalid(output) THEN Ok(output, lg, self)
    ELSE ChainLoop(self, items, i + 1, output, use_textfsm, r, lg)

\* the loop body after  output = self.device.send_command(cmd, ...)
ChainSent(s, self, items, i, use_textfsm, r) ==
    IF s.st # "ok" THEN s
    ELSE ChainTest(self, items, i, StripOutput(s.val, use_textfsm), use_textfsm,
                   r, s.log)

\* ChainLoop raising once every candidate was invalid
ChainLoopExhaustedRaises(self, items, i, output, use_textfsm, r, lg) ==
    IF i > Len(items)
    THEN (IF items = <<>> THEN Ok(output, lg, self)
          ELSE Raise("CommandErrorException", output, lg, self))
    ELSE ChainSent(Channel(self,
                           Request("send_command", items[i], use_textfsm, <<>>),
                           r, lg),
                   self, items, i, use_textfsm, r)

\* for cmd in command: ...
ChainLoop(self, items, i, output, use_textfsm, r, lg) ==
    IF i > Len(items) THEN Ok(output, lg, self)
    ELSE ChainSent(Channel(self,
                           Request("send_command", items[i], use_textfsm, <<>>),
                           r, lg),
                   self, items, i, use_textfsm, r)

\* the single-command branch after send_command
SingleSent(s, use_textfsm) ==
    IF s.st # "ok" THEN s
    ELSE Ok(StripOutput(s.val, use_textfsm), s.log, s.device)

\* pattern = r"[>#{}]\s*$".format(terminating_char)
Pattern(current_prompt) ==
    <<"[", ">", "#", current_prompt[Len(current_prompt)], "]", "\\s*$">>

\* _send_command, after current_prompt = self.device.find_prompt()
Prompted(p, self, command, use_textfsm, r) ==
    IF p.st # "ok" THEN p
    ELSE IF command.isList
    THEN ExceptSocket(ChainLoop(self, command.items, 1, Str(<<>>), use_textfsm,
                                r, p.log))
    ELSE ExceptSocket(
             SingleSent(Channel(self,
                                Request("send_command", command.str, use_textfsm,
                                        Pattern(strip(p.val.text))),
                                r, p.log),
                        use_textfsm))

_send_command(self, command, use_textfsm, r, lg) ==
    Prompted(Channel(self, Request("find_prompt", "", FALSE, <<>>), r, lg),
             self, command, use_textfsm, r)

\* cli_output[command] = output
SetItem(d, k, v) ==
    [x \in (DOMAIN d) \cup {k} |-> IF x = k THEN v ELSE d[x]]

RECURSIVE CliLoop(_, _, _, _, _, _)

\* CliSent leaving the offending command out and going on with the batch
CliSentSkips(o, self, commands, i, cli_output, r) ==
    IF o.st # "ok" THEN o
    ELSE IF Contains(o.val.text, IncorrectMarker)
    THEN CliLoop(self, commands, i + 1, cli_output, r, o.log)
    ELSE CliLoop(self, commands, i + 1,
                 SetItem(cli_output, commands[i], o.val.text), r, o.log)

\* the loop body after  output = self._send_command(command)
CliSent(o, self, commands, i, cli_output, r) ==
    IF o.st # "ok" THEN o
    ELSE IF Contains(o.val.text, IncorrectMarker)
    THEN Raise("ValueError", Str(<<"Unable to execute command", commands[i]>>),
               o.log, self)
    ELSE CliLoop(self, commands, i + 1,
                 SetItem(cli_output, commands[i], o.val.text), r, o.log)

\* for command in commands: ...
CliLoop(self, commands, i, cli_output, r, lg) ==
    IF i > Len(commands) THEN Ok(cli_output, lg, self)
    ELSE CliSent(_send_command(self, PyStr(commands[i]), FALSE, r, lg),
                 self, commands, i, cli_output, r)

cli(self, commands, encoding, r) ==
    IF encoding # "text"
    THEN Raise("NotImplementedError", NoneValue, <<>>, self)
    ELSE IF ~commands.isList
    THEN Raise("TypeError", NoneValue, <<>>, self)
    ELSE CliLoop(self, commands.items, 1, <<>>, r, <<>>)

\* ExceptNotAlive catching socket.error alone
ExceptSocketErrorOnly(o) ==
    IF o.st = "raise" /\ o.exc = "socket.error"
    THEN Ok(Bool(FALSE), o.log, o.device)
    ELSE o

\* the except clause of is_alive
ExceptNotAlive(o) ==
    IF o.st = "raise" /\ o.exc \in {"socket.error", "EOFError"}
    THEN Ok(Bool(FALSE), o.log, o.device)
    ELSE o

\* return {"is_alive": self.device.remote_conn.transport.is_active()}
AliveActive(t) ==
    IF t.st # "ok" THEN t ELSE Ok(Bool(t.val.flag), t.log, t.device)

\* is_alive, after self.device.write_channel(null)
AliveWritten(w, self, r) ==
    IF w.st # "ok" THEN w
    ELSE AliveActive(Channel(self, Request("is_active", "", FALSE, <<>>), r,
                             w.log))

is_alive(self, r) ==
    IF self = None THEN Ok(Bool(FALSE), <<>>, self)
    ELSE ExceptNotAlive(
             AliveWritten(Channel(self,
                                  Request("write_channel", "\\0", FALSE, <<>>),
                                  r, <<>>),
                          self, r))

\* ---------------------------------------------------------- get_config
SecretPrefixes ==
    { "mgmt-mode tr-069 access id admin password ",
      "onu auto-upgrade firmware ftp 10.0.0.1 user ",
      "snmp trap-host 10.0.0.2 ",
      "snmp community public " }

RECURSIVE RestOfLine(_)
\* what follows the current line, from its "\n" on
RestOfLine(s) ==
    IF s = <<>> \/ Head(s) = "\n" THEN s ELSE RestOfLine(Tail(s))

RECURSIVE Redact(_)
\* re.sub(r"(<prefix>).*$", r"\1<removed>", config, flags=re.M), all rules
Redact(s) ==
    IF s = <<>> THEN <<>>
    ELSE IF Head(s) \in SecretPrefixes
    THEN <<Head(s), "<removed>">> \o Redact(RestOfLine(Tail(s)))
    ELSE <<Head(s)>> \o Redact(Tail(s))

sanitize_configs(data) == [k \in DOMAIN data |-> Redact(data[k])]

\* return data, after the optional sanitize_configs
ConfigDone(data, sanitized, lg, self) ==
    Ok(IF sanitized THEN sanitize_configs(data) ELSE data, lg, self)

\* data["startup"] = config
StartupRead(o, data, sanitized) ==
    IF o.st # "ok" THEN o
    ELSE ConfigDone([data EXCEPT !.startup = o.val.text], sanitized, o.log,
                    o.device)

\* Startup reading the startup configuration whatever retrieve is
StartupAlways(self, data, retrieve, sanitized, r, lg) ==
    StartupRead(_send_command(self, PyStr("show startup-config"), FALSE, r, lg),
                data, sanitized)

\* if retrieve in ["all", "startup"]: ...
Startup(self, data, retrieve, sanitized, r, lg) ==
    IF retrieve \in {"all", "startup"}
    THEN StartupRead(_send_command(self, PyStr("show startup-config"), FALSE,
                                   r, lg),
                     data, sanitized)
    ELSE ConfigDone(data, sanitized, lg, self)

\* data["running"] = config
RunningRead(o, self, data, retrieve, sanitized, r) ==
    IF o.st # "ok" THEN o
    ELSE Startup(self, [data EXCEPT !.running = o.val.text], retrieve,
                 sanitized, r, o.log)

\* get_config, after self._enable()
ConfigEnabled(e, self, retrieve, sanitized, r) ==
    IF e.st # "ok" THEN e
    ELSE IF retrieve \in {"all", "running"}
    THEN RunningRead(_send_command(self, PyStr("show running-config"), FALSE,
                                   r, e.log),
                     self,
                     [startup |-> <<>>, running |-> <<>>, candidate |-> <<>>],
                     retrieve, sanitized, r)
    ELSE Startup(self, [startup |-> <<>>, running |-> <<>>, candidate |-> <<>>],
                 retrieve, sanitized, r, e.log)

get_config(self, retrieve, full, sanitized, r) ==
    ConfigEnabled(_enable(self, r, <<>>), self, retrieve, sanitized, r)

\* ----------------------------------------- get_environment and get_facts
RECURSIVE Collect(_, _, _, _, _, _)

\* output[command] = <the records returned>
Collected(o, self, commands, i, output, r) ==
    IF o.st # "ok" THEN o
    ELSE Collect(self, commands, i + 1,
                 SetItem(output, commands[i], o.val.recs), r, o.log)

\* for command in commands:
\*     output[command] = self._send_command(command, use_textfsm=True)
Collect(self, commands, i, output, r, lg) ==
    IF i > Len(commands) THEN Ok(output, lg, self)
    ELSE Collected(_send_command(self, PyStr(commands[i]), TRUE, r, lg),
                   self, commands, i, output, r)

\* A decimal numeral "[-]whole.tenth" and float() of it, in hundredths.
Dec(neg, whole, tenth) == [neg |-> neg, whole |-> whole, tenth |-> tenth]
float(d) == (IF d.neg THEN -1 ELSE 1) * (d.whole * 100 + d.tenth * 10)

\* x * 0.10 on hundredths
TenPercent(x) == (x * 10) \div 100

IsCritical(value, threshold_low, threshold_high) ==
    value < threshold_low \/ value > threshold_high

\* IsAlert with the bounds of the band included
IsAlertInclusive(value, threshold_low, threshold_high) ==
    \/ value <= threshold_low + TenPercent(threshold_low)
    \/ value >= threshold_high - TenPercent(threshold_high)

\* IsAlert with the margin taken outside the thresholds
IsAlertOuterBand(value, threshold_low, threshold_high) ==
    \/ value < threshold_low - TenPercent(threshold_low)
    \/ value > threshold_high + TenPercent(threshold_high)

IsAlert(value, threshold_low, threshold_high) ==
    \/ value < threshold_low + TenPercent(threshold_low)
    \/ value > threshold_high - TenPercent(threshold_high)

RECURSIVE Fans(_, _, _)
Fans(entries, i, fans) ==
    IF i > Len(entries) THEN fans
    ELSE Fans(entries, i + 1,
              SetItem(fans, <<entries[i].fan_name, "-", entries[i].fan_index>>,
                      [status |-> (entries[i].fan_status = "RUN")]))

\* data["temperature"][key] = {...}
TemperatureEntry(value, threshold_low, threshold_high) ==
    [temperature |-> value,
     is_alert |-> IsAlert(value, threshold_low, threshold_high),
     is_critical |-> IsCritical(value, threshold_low, threshold_high)]

RECURSIVE Temperature(_, _, _)
Temperature(entries, i, temperature) ==
    IF i > Len(entries) THEN temperature
    ELSE Temperature(entries, i + 1,
            SetItem(temperature, entries[i].temp_name,
                    TemperatureEntry(float(entries[i].temp_value),
                                     float(entries[i].temp_threshold_low),
                                     float(entries[i].temp_threshold_high))))

RECURSIVE Power(_, _, _)
Power(entries, i, power) ==
    IF i > Len(entries) THEN power
    ELSE Power(entries, i + 1,
               SetItem(power, entries[i].power_name,
                       [status |-> (entries[i].power_status = "OK"),
                        capacity |-> None, output |-> None]))

RECURSIVE Cpu(_, _, _)
Cpu(entries, i, cpu) ==
    IF i > Len(entries) THEN cpu
    ELSE Cpu(entries, i + 1,
             SetItem(cpu, "CPU",
                     [usage |-> float(entries[i].cpu_average_1min)]))

EnvironmentCommands ==
    <<"show cpuload", "show memory", "show status fan", "show status temp",
      "show status power">>

\* get_environment, after the five commands
EnvironmentData(c) ==
    IF c.st # "ok" THEN c
    ELSE Ok([memory |->
                 [available_ram |-> c.val["show memory"][1].mem_total,
                  used_ram |-> c.val["show memory"][1].mem_used],
             fans |-> Fans(c.val["show status fan"], 1, <<>>),
             temperature |-> Temperature(c.val["show status temp"], 1, <<>>),
             power |-> Power(c.val["show status power"], 1, <<>>),
             cpu |-> Cpu(c.val["show cpuload"], 1, <<>>)],
            c.log, c.device)

\* get_environment, after self._enable()
EnvironmentEnabled(e, self, r) ==
    IF e.st # "ok" THEN e
    ELSE EnvironmentData(Collect(self, EnvironmentCommands, 1, <<>>, r, e.log))

get_environment(self, r) == EnvironmentEnabled(_enable(self, r, <<>>), self, r)

\* An uptime text is a sequence of groups "<n> <unit>" joined by single
\* blanks.  The absent value of an optional regex group is NoGroup.
NoGroup == -1
UnitNames == <<"days", "hours", "minutes", "seconds">>

\* The groups found by regex.match(uptime): the optional groups in their
\* order, each followed by a blank, then the seconds group.  found[j] is the
\* position in the text of group j, 0 when the group did not take part.
RECURSIVE MatchFrom(_, _, _, _)
MatchFrom(uptime, j, i, found) ==
    IF j = 4
    THEN (IF i <= Len(uptime) /\ uptime[i].unit = "seconds"
          THEN Append(found, i) ELSE <<>>)
    ELSE IF i < Len(uptime) /\ uptime[i].unit = UnitNames[j]
    THEN MatchFrom(uptime, j + 1, i + 1, Append(found, i))
    ELSE MatchFrom(uptime, j + 1, i, Append(found, 0))

\* regex.match(uptime).groupdict(); <<>> stands for no match (None)
GroupDict(uptime, found) ==
    [j \in DOMAIN found |-> IF found[j] = 0 THEN NoGroup ELSE uptime[found[j]].n]

UnitWeight(unit) ==
    CASE unit = "days" -> 86400
      [] unit = "hours" -> 3600
      [] unit = "minutes" -> 60
      [] unit = "seconds" -> 1

RECURSIVE UptimeLoop(_, _, _)
\* for unit in units: uptime_sec += int(units[unit]) * <weight of the unit>
UptimeLoop(units, j, uptime_sec) ==
    IF j > Len(units) THEN [st |-> "ok", exc |-> "none", val |-> uptime_sec]
    ELSE IF units[j] = NoGroup
    THEN [st |-> "raise", exc |-> "TypeError", val |-> 0]
    ELSE UptimeLoop(units, j + 1,
                    uptime_sec + units[j] * UnitWeight(UnitNames[j]))

\* units = regex.match(uptime).groupdict() and the loop over it
Matched(uptime, found) ==
    IF found = <<>>
    THEN [st |-> "raise", exc |-> "AttributeError", val |-> 0]
    ELSE UptimeLoop(GroupDict(uptime, found), 1, 0)

_format_uptime(uptime) == Matched(uptime, MatchFrom(uptime, 1, 1, <<>>))

RECURSIVE Insert(_, _)
Insert(sorted, x) ==
    IF sorted = <<>> THEN <<x>>
    ELSE IF x.n < Head(sorted).n THEN <<x>> \o sorted
    ELSE <<Head(sorted)>> \o Insert(Tail(sorted), x)

RECURSIVE sorted_nicely(_)
\* natural order of interface names "<name><n>" with one name stem
sorted_nicely(names) ==
    IF names = <<>> THEN <<>>
    ELSE Insert(sorted_nicely(SubSeq(names, 1, Len(names) - 1)),
                names[Len(names)])

FactsCommands ==
    <<"show system", "show uptime", "show ip interface brief",
      "show running-config hostname">>

InterfaceNames(entries) == [i \in DOMAIN entries |-> entries[i].interface]

\* data = {...}; return data
FactsData(up, output, lg, self) ==
    IF up.st # "ok" THEN Raise(up.exc, NoneValue, lg, self)
    ELSE Ok([uptime |-> up.val,
             vendor |-> "Dasan",
             os_version |-> output["show system"][1].sw_version,
             serial_number |-> output["show system"][1].serial,
             model |-> output["show system"][1].model,
             hostname |-> output["show running-config hostname"][1].hostname,
             fqdn |-> "",
             interface_list |->
                 sorted_nicely(InterfaceNames(output["show ip interface brief"]))],
            lg, self)

\* get_facts, after the four commands
FactsCollected(c) ==
    IF c.st # "ok" THEN c
    ELSE FactsData(_format_uptime(c.val["show uptime"][1].uptime), c.val, c.log,
                   c.device)

\* get_facts, after self._enable()
FactsEnabled(e, self, r) ==
    IF e.st # "ok" THEN e
    ELSE FactsCollected(Collect(self, FactsCommands, 1, <<>>, r, e.log))

get_facts(self, r) == FactsEnabled(_enable(self, r, <<>>), self, r)

\* ------------------------------------------------------------ the device
RECURSIVE SeqsUpTo(_, _)
SeqsUpTo(S, n) ==
    IF n = 0 THEN {<<>>}
    ELSE LET shorter == SeqsUpTo(S, n - 1)
         IN  shorter \cup {Append(q, x) : q \in shorter, x \in S}

Cmds == {"show version", "bogus cmd"}

Prompts == {<<"SWITCH", ">">>, <<" ", "SWITCH", "#", " ">>}

RawOutputs ==
    { <<>>,
      <<" ", "V1.0", "\n">>,
      <<"%", " ", "Invalid">>,
      <<"\n", "%", " ", "Invalid", " ", "input", "\n">>,
      <<"%", " ", "Incorrect", " ", "usage", " ">> }

ConfigTexts ==
    { <<>>,
      <<"hostname SWITCH", "\n">>,
      <<" ", "snmp community public ", "rw", "\n", "hostname SWITCH", "\n">> }

\* the readings <<value, <<threshold_low, threshold_high>>>> of a sensor
TempReadings ==
    ( { Dec(FALSE, 9, 0), Dec(FALSE, 11, 0), Dec(FALSE, 50, 0),
        Dec(FALSE, 89, 5), Dec(FALSE, 90, 5) }
      \X {<<Dec(FALSE, 10, 0), Dec(FALSE, 90, 0)>>} )
    \cup ( {Dec(TRUE, 10, 5)} \X {<<Dec(FALSE, 0, 0), Dec(FALSE, 90, 0)>>} )
    \cup ( {Dec(TRUE, 10, 5), Dec(FALSE, 9, 0)}
           \X {<<Dec(TRUE, 10, 0), Dec(TRUE, 5, 0)>>} )

\* the records of "show status temp": sensor i reports reading q[i]
TempRecords(q) ==
    [i \in DOMAIN q |->
        [temp_name |-> i, temp_value |-> q[i][1],
         temp_threshold_low |-> q[i][2][1],
         temp_threshold_high |-> q[i][2][2]]]

Group(n, unit) == [n |-> n, unit |-> unit]

\* "9 days 6 hours 17 minutes 25 seconds" with any of the first three groups
\* left out, "45 seconds", and a text without seconds
UptimeTexts ==
    { SelectSeq(<<Group(9, "days"), Group(6, "hours"), Group(17, "minutes"),
                  Group(25, "seconds")>>,
                LAMBDA g : g.unit \in keep \cup {"seconds"})
        : keep \in SUBSET {"days", "hours", "minutes"} }
    \cup { <<Group(45, "seconds")>>, <<Group(3, "days")>> }

Interface(n) == [stem |-> "eth", n |-> n]

\* what send_command returns for a command
Outputs(cmd, textfsm) ==
    IF ~textfsm
    THEN IF cmd \in {"show running-config", "show startup-config"}
         THEN {Str(t) : t \in ConfigTexts}
         ELSE {Str(t) : t \in RawOutputs}
    ELSE
    CASE cmd = "show cpuload" ->
            {List(<<[cpu_average_1min |-> Dec(FALSE, 12, 5)]>>)}
      [] cmd = "show memory" ->
            {List(<<[mem_total |-> 1000, mem_used |-> 400]>>)}
      [] cmd = "show status fan" ->
            {List(<<[fan_name |-> "FAN", fan_index |-> "1", fan_status |-> s]>>)
                : s \in {"RUN", "STOP"}}
      [] cmd = "show status temp" ->
            {List(TempRecords(q)) : q \in SeqsUpTo(TempReadings, MaxTemps)}
      [] cmd = "show status power" ->
            {List(<<[power_name |-> "PSU1", power_status |-> s]>>)
                : s \in {"OK", "FAIL"}}
      [] cmd = "show system" ->
            {List(<<[sw_version |-> "1.07", serial |-> "SN0001",
                     model |-> "V5812G"]>>)}
      [] cmd = "show uptime" -> {List(<<[uptime |-> u]>>) : u \in UptimeTexts}
      [] cmd = "show ip interface brief" ->
            {List(<<>>),
             List(<<[interface |-> Interface(10)], [interface |-> Interface(2)],
                    [interface |-> Interface(1)]>>)}
      [] cmd = "show running-config hostname" ->
            {List(<<[hostname |-> "SWITCH"]>>)}
      [] OTHER -> {List(<<>>)} \cup {Str(t) : t \in RawOutputs}

\* what the session can return to a request
Returns(req) ==
    CASE req.fn = "_netmiko_open" -> {NoneValue}
      [] req.fn = "_netmiko_close" -> {NoneValue}
      [] req.fn = "_test_channel_read" ->
            {Str(<<"SWITCH", ">">>), Str(<<"Login", " ", "incorrect", "\n">>)}
      [] req.fn = "find_prompt" -> {Str(p) : p \in Prompts}
      [] req.fn = "enable" -> {Str(<<"SWITCH", "#">>)}
      [] req.fn = "write_channel" -> {NoneValue}
      [] req.fn = "is_active" -> {Bool(TRUE), Bool(FALSE)}
      [] req.fn = "send_command" -> Outputs(req.cmd, req.textfsm)

\* what a request can fail with
Raises(req) ==
    CASE req.fn = "_netmiko_open" -> {"ConnectionException"}
      [] req.fn = "_netmiko_close" -> {}
      [] OTHER -> {"socket.error", "EOFError"}

\* -------------------------------------------------------- state machine
\* _format_uptime is a static method: no session, no request
StaticCall(up, self) ==
    [st |-> up.st, exc |-> up.exc, val |-> up.val, log |-> <<>>, device |-> self]

Run(o, a, r, self) ==
    CASE o = "open" -> open(self, r)
      [] o = "close" -> close(self, r, <<>>)
      [] o = "is_alive" -> is_alive(self, r)
      [] o = "cli" -> cli(self, a.commands, a.encoding, r)
      [] o = "_send_command" ->
            _send_command(self, a.command, a.use_textfsm, r, <<>>)
      [] o = "get_config" ->
            get_config(self, a.retrieve, a.full, a.sanitized, r)
      [] o = "get_environment" -> get_environment(self, r)
      [] o = "get_facts" -> get_facts(self, r)
      [] o = "_format_uptime" -> StaticCall(_format_uptime(a.uptime), self)

NoResult == [st |-> "none", exc |-> "none", val |-> NoneValue]

\* the call has run as far as the answers r reach
Commit(out, r) ==
    /\ rs' = r
    /\ log' = out.log
    /\ device' = out.device
    /\ pc' = IF out.st = "block" THEN "running" ELSE "done"
    /\ result' = IF out.st = "block" THEN NoResult
                 ELSE [st |-> out.st, exc |-> out.exc, val |-> out.val]

Settle(o, a, r) == Commit(Run(o, a, r, device), r)

\* a caller starts method o with arguments a
Call(o, a) ==
    /\ op' = o
    /\ args' = a
    /\ Settle(o, a, <<>>)

NoArgs == [none |-> TRUE]

Commands(n) == {PyList(l) : l \in SeqsUpTo(Cmds, n)} \cup {PyStr("show version")}

Call_open ==
    /\ pc # "running"
    /\ Call("open", NoArgs)

Call_close ==
    /\ pc # "running"
    /\ Call("close", NoArgs)

Call_is_alive ==
    /\ pc # "running"
    /\ Call("is_alive", NoArgs)

Call_cli ==
    /\ pc # "running"
    /\ \E c \in Commands(MaxCmds), e \in {"text", "json"} :
          Call("cli", [commands |-> c, encoding |-> e])

Call_send_command ==
    /\ pc # "running"
    /\ \E c \in Commands(MaxChain), t \in BOOLEAN :
          Call("_send_command", [command |-> c, use_textfsm |-> t])

Call_get_config ==
    /\ pc # "running"
    /\ \E retrieve \in {"all", "running", "startup", "candidate"},
          sanitized \in BOOLEAN :
          Call("get_config",
               [retrieve |-> retrieve, full |-> FALSE, sanitized |-> sanitized])

Call_get_environment ==
    /\ pc # "running"
    /\ Call("get_environment", NoArgs)

Call_get_facts ==
    /\ pc # "running"
    /\ Call("get_facts", NoArgs)

Call_format_uptime ==
    /\ pc # "running"
    /\ \E u \in UptimeTexts : Call("_format_uptime", [uptime |-> u])

\* the session answers the pending request with a value
ChannelReturns ==
    /\ pc = "running"
    /\ \E v \in Returns(log[Len(log)]) :
          Settle(op, args, Append(rs, [exc |-> "none", val |-> v]))
    /\ UNCHANGED <<op, args>>

\* the pending request fails
ChannelRaises ==
    /\ pc = "running"
    /\ \E e \in Raises(log[Len(log)]) :
          Settle(op, args, Append(rs, [exc |-> e, val |-> NoneValue]))
    /\ UNCHANGED <<op, args>>

Init ==
    /\ device = None
    /\ pc = "idle"
    /\ op = "none"
    /\ args = NoArgs
    /\ rs = <<>>
    /\ log = <<>>
    /\ result = NoResult

Next ==
    \/ Call_open
    \/ Call_close
    \/ Call_is_alive
    \/ Call_cli
    \/ Call_send_command
    \/ Call_get_config
    \/ Call_get_environment
    \/ Call_get_facts
    \/ Call_format_uptime
    \/ ChannelReturns
    \/ ChannelRaises

Spec == Init /\ [][Next]_vars

\* ------------------------------------------------------------ properties
\* the positions in log of the send_command requests, in order
SendPos ==
    SelectSeq([k \in 1..Len(log) |-> k], LAMBDA k : log[k].fn = "send_command")

\* the commands sent to the session by the call, in order
SentCmds == [j \in 1..Len(SendPos) |-> log[SendPos[j]].cmd]

\* the number of sent commands the device has answered, and answer j
AnsweredSends == Cardinality({j \in 1..Len(SendPos) : SendPos[j] <= Len(rs)})
SendAnswer(j) == rs[SendPos[j]]

\* an answer of the device fails with a socket error or end of stream
SocketFailure(k) == rs[k].exc \in {"socket.error", "EOFError"}
NoFailure == \A k \in 1..Len(rs) : rs[k].exc = "none"

IsPrefix(p, q) == Len(p) <= Len(q) /\ p = SubSeq(q, 1, Len(p))

\* the raw text returned by the device carries the marker
HasMarker(v, marker) == v.kind = "str" /\ Contains(v.text, marker)

\* the result a caller sees for the raw answer v
Trimmed(v, use_textfsm) ==
    IF use_textfsm THEN v ELSE Str(strip(v.text))

InChain == op = "_send_command" /\ pc # "idle" /\ args.command.isList

\* C1: the candidates of a fallback chain are sent in list order, each
\* position at most once; no candidate is sent after one whose output lacks
\* "% Invalid"; and when the call returns, sending went on up to the first
\* such candidate (or to the end of the list when there is none).
C1_ChainOrder ==
    InChain =>
        /\ IsPrefix(SentCmds, args.command.items)
        /\ \A j \in 1..AnsweredSends :
              (SendAnswer(j).exc = "none"
               /\ ~HasMarker(SendAnswer(j).val, InvalidMarker))
                  => j = Len(SentCmds)
        /\ (pc = "done" /\ result.st = "ok") =>
              /\ AnsweredSends = Len(SentCmds)
              /\ \/ Len(SentCmds) = Len(args.command.items)
                 \/ ~HasMarker(SendAnswer(Len(SentCmds)).val, InvalidMarker)

C1_Witness ==
    /\ InChain /\ pc = "done" /\ result.st = "ok"
    /\ Len(args.command.items) = 2
    /\ Len(SentCmds) = 2
    /\ HasMarker(SendAnswer(1).val, InvalidMarker)
    /\ ~HasMarker(SendAnswer(2).val, InvalidMarker)

\* the candidates whose answer lacks the marker
ValidAnswers ==
    {j \in 1..AnsweredSends : ~HasMarker(SendAnswer(j).val, InvalidMarker)}

Least(S) == CHOOSE x \in S : \A y \in S : x <= y

\* C2: a non-empty chain whose channel does not fail returns without error:
\* the trimmed output of the first candidate without the marker, and the
\* trimmed output of the last candidate when every candidate has the marker.
C2_ChainResult ==
    (InChain /\ pc = "done" /\ device # None /\ NoFailure
     /\ args.command.items # <<>>) =>
        /\ result.st = "ok"
        /\ IF ValidAnswers = {}
           THEN /\ AnsweredSends = Len(args.command.items)
                /\ result.val =
                       Trimmed(SendAnswer(Len(args.command.items)).val,
                               args.use_textfsm)
           ELSE result.val =
                    Trimmed(SendAnswer(Least(ValidAnswers)).val,
                            args.use_textfsm)

C2_Witness ==
    /\ InChain /\ pc = "done" /\ result.st = "ok"
    /\ Len(args.command.items) = 2
    /\ ValidAnswers = {}
    /\ AnsweredSends = 2
    /\ result.val = Str(strip(SendAnswer(2).val.text))
    /\ result.val # SendAnswer(2).val
    /\ SendAnswer(1).val # SendAnswer(2).val

InCli ==
    op = "cli" /\ pc # "idle" /\ args.encoding = "text" /\ args.commands.isList

\* the commands whose answer carries "Incorrect usage"
Offending ==
    {j \in 1..AnsweredSends : HasMarker(SendAnswer(j).val, IncorrectMarker)}

\* C3: cli sends the commands in order and nothing after the first command
\* whose output has the incorrect-usage marker; it then fails with an error
\* naming that command and returns no mapping; without such a command (and
\* without a channel failure) it returns the mapping from each command to
\* its trimmed output (of its last occurrence in the list).
C3_CliAbortsAtFirstIncorrect ==
    InCli =>
        /\ IsPrefix(SentCmds, args.commands.items)
        /\ \A j \in Offending : j = Len(SentCmds)
        /\ (pc = "done" /\ device # None /\ NoFailure) =>
              IF Offending # {}
              THEN /\ result.st = "raise"
                   /\ result.exc = "ValueError"
                   /\ result.val.text[2] = args.commands.items[Least(Offending)]
                   /\ SentCmds = SubSeq(args.commands.items, 1, Least(Offending))
              ELSE /\ result.st = "ok"
                   /\ SentCmds = args.commands.items
                   /\ DOMAIN result.val =
                          {args.commands.items[j] : j \in 1..Len(SentCmds)}
                   /\ \A j \in 1..Len(SentCmds) :
                          (\A k \in (j + 1)..Len(SentCmds) :
                              SentCmds[k] # SentCmds[j])
                              => result.val[SentCmds[j]] =
                                     strip(SendAnswer(j).val.text)

C3_Witness ==
    /\ InCli /\ pc = "done"
    /\ Len(args.commands.items) = 2
    /\ Offending = {1}
    /\ Len(SentCmds) = 1
    /\ result.exc = "ValueError"
    /\ result.val.text[2] = args.commands.items[1]

\* the text is "<d> days <h> hours <m> minutes <s> seconds" with some of
\* the first three groups left out
ValidUptime(u) ==
    /\ u # <<>>
    /\ u[Len(u)].unit = "seconds"
    /\ \A i \in 1..Len(u), j \in 1..Len(u) :
          i < j => \E a \in 1..4, b \in 1..4 :
                       a < b /\ u[i].unit = UnitNames[a] /\ u[j].unit = UnitNames[b]

RECURSIVE WeightedSum(_)
WeightedSum(u) ==
    IF u = <<>> THEN 0
    ELSE Head(u).n * UnitWeight(Head(u).unit) + WeightedSum(Tail(u))

\* C4: for every valid uptime text _format_uptime returns the weighted sum
\* d*86400 + h*3600 + m*60 + s, a group left out counting as 0.
C4_UptimeIsWeightedSum ==
    (op = "_format_uptime" /\ pc = "done" /\ ValidUptime(args.uptime)) =>
        /\ result.st = "ok"
        /\ result.val = WeightedSum(args.uptime)

\* C5: is_alive never raises and returns a boolean; False without a session;
\* True only if the null-byte write succeeded and the transport is active.
C5_IsAliveNeverRaises ==
    (op = "is_alive" /\ pc = "done") =>
        /\ result.st = "ok"
        /\ result.val.kind = "bool"
        /\ device = None => result.val.flag = FALSE
        /\ result.val.flag = TRUE =>
              /\ device # None
              /\ Len(rs) = 2
              /\ rs[1].exc = "none"
              /\ rs[2].exc = "none"
              /\ rs[2].val = Bool(TRUE)
        /\ (Len(rs) = 2 /\ NoFailure) => result.val = rs[2].val

C5_Witness ==
    /\ op = "is_alive" /\ pc = "done"
    /\ device # None
    /\ Len(rs) = 2
    /\ rs[2].exc = "EOFError"
    /\ result.st = "ok"
    /\ result.val = Bool(FALSE)

\* C6: a socket error or end of stream in any channel interaction of a
\* command execution or retrieval (prompt read, send, elevation) surfaces as
\* ConnectionClosedException, and the failed interaction is not repeated.
C6_SocketErrorsSurfaceAsClosed ==
    (op \in {"cli", "_send_command", "get_config", "get_environment",
             "get_facts"}
     /\ pc = "done"
     /\ \E k \in 1..Len(rs) : SocketFailure(k)) =>
        /\ result.st = "raise"
        /\ result.exc = "ConnectionClosedException"
        /\ Len(log) = Len(rs)
        /\ SocketFailure(Len(rs))

\* the retrieval commands get_config is to send for a value of retrieve
Selected(retrieve) ==
    (IF retrieve \in {"all", "running"} THEN <<"show running-config">> ELSE <<>>)
    \o (IF retrieve \in {"all", "startup"} THEN <<"show startup-config">> ELSE <<>>)

\* the text of the device for a retrieval command, as the caller gets it
ConfigText(cmd) ==
    LET j == CHOOSE j \in 1..Len(SentCmds) : SentCmds[j] = cmd
        text == strip(SendAnswer(j).val.text)
    IN  IF args.sanitized THEN Redact(text) ELSE text

\* C7: get_config sends only the retrieval commands retrieve selects, running
\* before startup; a selected field holds the device's text, every other
\* field is empty, and candidate is empty whatever retrieve and sanitized.
C7_ConfigOnlySelected ==
    (op = "get_config" /\ pc # "idle") =>
        /\ IsPrefix(SentCmds, Selected(args.retrieve))
        /\ (pc = "done" /\ result.st = "ok") =>
              /\ SentCmds = Selected(args.retrieve)
              /\ result.val.candidate = <<>>
              /\ result.val.running =
                     IF args.retrieve \in {"all", "running"}
                     THEN ConfigText("show running-config") ELSE <<>>
              /\ result.val.startup =
                     IF args.retrieve \in {"all", "startup"}
                     THEN ConfigText("show startup-config") ELSE <<>>

C7_Witness ==
    /\ op = "get_config" /\ pc = "done" /\ result.st = "ok"
    /\ args.retrieve = "startup"
    /\ args.sanitized
    /\ SentCmds = <<"show startup-config">>
    /\ result.val.startup # <<>>
    /\ Contains(result.val.startup, <<"<removed>">>)
    /\ result.val.running = <<>>

\* a decimal numeral in tenths
Tenths(d) == (IF d.neg THEN -1 ELSE 1) * (d.whole * 10 + d.tenth)

EnvironmentDone == op = "get_environment" /\ pc = "done" /\ result.st = "ok"

\* the records the device returned for "show status temp"
TempEntries ==
    LET j == CHOOSE j \in 1..Len(SentCmds) : SentCmds[j] = "show status temp"
    IN  SendAnswer(j).val.recs

\* C8: for every temperature record, is_critical iff v < low or v > high, and
\* is_alert iff v < low + 0.10*low or v > high - 0.10*high; with low = 10 and
\* high = 90: 9 is critical, 89.5 is not critical but an alert, 50 is neither.
C8_TemperatureFlags ==
    EnvironmentDone =>
        \A i \in 1..Len(TempEntries) :
            LET e == TempEntries[i]
                v == Tenths(e.temp_value)
                low == Tenths(e.temp_threshold_low)
                high == Tenths(e.temp_threshold_high)
                rec == result.val.temperature[e.temp_name]
            IN  /\ rec.is_critical <=> (v < low \/ v > high)
                /\ rec.is_alert <=> (10 * v < 11 * low \/ 10 * v > 9 * high)
                /\ (low = 100 /\ high = 900 /\ v = 90) => rec.is_critical
                /\ (low = 100 /\ high = 900 /\ v = 895) =>
                       (~rec.is_critical /\ rec.is_alert)
                /\ (low = 100 /\ high = 900 /\ v = 500) =>
                       (~rec.is_critical /\ ~rec.is_alert)

C8_Witness ==
    /\ EnvironmentDone
    /\ \E i \in 1..Len(TempEntries) :
          /\ TempEntries[i].temp_value = Dec(FALSE, 89, 5)
          /\ TempEntries[i].temp_threshold_low = Dec(FALSE, 10, 0)
          /\ TempEntries[i].temp_threshold_high = Dec(FALSE, 90, 0)
          /\ result.val.temperature[TempEntries[i].temp_name].is_alert
          /\ ~result.val.temperature[TempEntries[i].temp_name].is_critical

EnableCount == Cardinality({k \in 1..Len(log) : log[k].fn = "enable"})

\* C9: in every call of get_config, get_environment and get_facts on a
\* session, whatever calls came before, the first interaction is the
\* "enable" command, it is sent once in the call, and every query command of
\* the call comes after it.
C9_EnableFirstInEveryCall ==
    (op \in {"get_config", "get_environment", "get_facts"}
     /\ pc # "idle" /\ device # None) =>
        /\ log # <<>>
        /\ log[1].fn = "enable"
        /\ log[1].cmd = "enable"
        /\ EnableCount = 1
        /\ \A j \in 1..Len(SendPos) : SendPos[j] > 1

C9_Witness ==
    /\ op = "get_facts" /\ pc = "done" /\ result.st = "ok"
    /\ log[1].fn = "enable"
    /\ Len(SentCmds) = 4
    /\ EnableCount = 1

\* C10: a temperature record whose thresholds are both non-negative and that
\* is critical is an alert too.
C10_CriticalImpliesAlert ==
    EnvironmentDone =>
        \A i \in 1..Len(TempEntries) :
            (~TempEntries[i].temp_threshold_low.neg
             /\ ~TempEntries[i].temp_threshold_high.neg
             /\ result.val.temperature[TempEntries[i].temp_name].is_critical)
                => result.val.temperature[TempEntries[i].temp_name].is_alert

C10_Witness ==
    /\ EnvironmentDone
    /\ \E i \in 1..Len(TempEntries) :
          /\ ~TempEntries[i].temp_threshold_low.neg
          /\ ~TempEntries[i].temp_threshold_high.neg
          /\ result.val.temperature[TempEntries[i].temp_name].is_critical
          /\ result.val.temperature[TempEntries[i].temp_name].is_alert

====
